---- MODULE Spec2Model ----
(***************************************************************************)
(* Retro Pixel Art Generator (retro_pixel_art.py).                         *)
(*                                                                         *)
(* generate_pixel_art(width, height, style) is modelled as an operator    *)
(* that runs the two nested loops of the source and threads the state of  *)
(* the module-level random source through them.  main() is modelled as a  *)
(* process that blocks at each input() call.                              *)
(*                                                                         *)
(* Strings that the code inspects character by character (the inputs of   *)
(* int() and .lower(), the style) are sequences of one-character strings. *)
(* A glyph of the palette is written by its name: "solid" is U+2588,      *)
(* "dark" U+2593, "medium" U+2592, "light" U+2591, "filled" U+25A0,       *)
(* "empty" U+25A1.  A row is a sequence of glyphs.                        *)
(***************************************************************************)
EXTENDS Integers, Sequences, FiniteSets, TLC

VARIABLES
    args,      \* arguments of the latest generate_pixel_art call
    art,       \* value returned by the latest generate_pixel_art call
    rng,       \* state of the random source (module `random`)
    draws,     \* random.choice calls made by the latest call
    called,    \* generate_pixel_art has been called
    first,     \* harness: arguments and result of the first call
    advanced,  \* harness: the random source was advanced after the first call
    pc,        \* main: position
    width,     \* main: local `width`
    height,    \* main: local `height`
    style,     \* main: local `style`
    stdin,     \* lines main has read
    stdout     \* lines main has printed

vars == <<args, art, rng, draws, called, first, advanced,
          pc, width, height, style, stdin, stdout>>

rendererVars == <<args, art, rng, draws, called>>
harnessVars == <<first, advanced>>
shellVars == <<pc, width, height, style, stdin, stdout>>

----------------------------------------------------------------------------
(* Bounds *)

\* largest width and height of a direct call (Spec)
MaxDim == 5
\* largest width and height of a call of the two-call harness (SpecTwice)
MaxDimTwice == 2
\* period of the stream the random source yields
TapeLen == 2
\* number of palette indices the source yields under SpecTwice and ShellSpec
SeedIndices == 2

(* Program constants *)
MinWidth == 5
MaxWidth == 50
MinHeight == 5
MaxHeight == 30
DefaultWidth == 10
DefaultHeight == 10

----------------------------------------------------------------------------
(* The renderer *)

pixel_chars == <<"solid", "dark", "medium", "light", "filled", "empty">>

\* pixel_chars[i], 0-indexed as in the source
PixelChar(i) == pixel_chars[i + 1]

Random == <<"r", "a", "n", "d", "o", "m">>
Checker == <<"c", "h", "e", "c", "k", "e", "r">>
Border == <<"b", "o", "r", "d", "e", "r">>
Recognized == {Random, Checker, Border}

\* The random source: an arbitrary stream of indices, of period TapeLen.
Seeds == [1..TapeLen -> 0..(Len(pixel_chars) - 1)]

\* random.choice(seq): the element the source's next value selects
Choice(seq, r) == seq[(Head(r) % Len(seq)) + 1]

\* the source after one draw
Advance(r) == Append(Tail(r), Head(r))

\* mutant: an unrecognized style is drawn like the random style
CellStepDefaultRandom(x, y, w, h, s, st) ==
    IF s = Random
    THEN [st EXCEPT !.row = Append(@, Choice(pixel_chars, st.rng)),
                    !.rng = Advance(@),
                    !.draws = @ + 1]
    ELSE IF s = Checker
    THEN [st EXCEPT !.row = Append(@, IF (x + y) % 2 = 0
                                       THEN PixelChar(0) ELSE PixelChar(1))]
    ELSE IF s = Border
    THEN IF x = 0 \/ x = w - 1 \/ y = 0 \/ y = h - 1
         THEN [st EXCEPT !.row = Append(@, PixelChar(0))]
         ELSE [st EXCEPT !.row = Append(@, PixelChar(3))]
    ELSE [st EXCEPT !.row = Append(@, Choice(pixel_chars, st.rng)),
                    !.rng = Advance(@),
                    !.draws = @ + 1]

\* mutant: the checker parity is inverted
CellStepParity(x, y, w, h, s, st) ==
    IF s = Random
    THEN [st EXCEPT !.row = Append(@, Choice(pixel_chars, st.rng)),
                    !.rng = Advance(@),
                    !.draws = @ + 1]
    ELSE IF s = Checker
    THEN [st EXCEPT !.row = Append(@, IF (x + y) % 2 = 1
                                       THEN PixelChar(0) ELSE PixelChar(1))]
    ELSE IF s = Border
    THEN IF x = 0 \/ x = w - 1 \/ y = 0 \/ y = h - 1
         THEN [st EXCEPT !.row = Append(@, PixelChar(0))]
         ELSE [st EXCEPT !.row = Append(@, PixelChar(3))]
    ELSE st

\* mutant: the checker pattern alternates along x only
CellStepStripes(x, y, w, h, s, st) ==
    IF s = Random
    THEN [st EXCEPT !.row = Append(@, Choice(pixel_chars, st.rng)),
                    !.rng = Advance(@),
                    !.draws = @ + 1]
    ELSE IF s = Checker
    THEN [st EXCEPT !.row = Append(@, IF x % 2 = 0
                                       THEN PixelChar(0) ELSE PixelChar(1))]
    ELSE IF s = Border
    THEN IF x = 0 \/ x = w - 1 \/ y = 0 \/ y = h - 1
         THEN [st EXCEPT !.row = Append(@, PixelChar(0))]
         ELSE [st EXCEPT !.row = Append(@, PixelChar(3))]
    ELSE st

\* mutant: the border test compares with width and height, not width-1, height-1
CellStepOpenBorder(x, y, w, h, s, st) ==
    IF s = Random
    THEN [st EXCEPT !.row = Append(@, Choice(pixel_chars, st.rng)),
                    !.rng = Advance(@),
                    !.draws = @ + 1]
    ELSE IF s = Checker
    THEN [st EXCEPT !.row = Append(@, IF (x + y) % 2 = 0
                                       THEN PixelChar(0) ELSE PixelChar(1))]
    ELSE IF s = Border
    THEN IF x = 0 \/ x = w \/ y = 0 \/ y = h
         THEN [st EXCEPT !.row = Append(@, PixelChar(0))]
         ELSE [st EXCEPT !.row = Append(@, PixelChar(3))]
    ELSE st

\* mutant: the checker pattern takes its phase from the random source
CellStepRandomPhase(x, y, w, h, s, st) ==
    IF s = Random
    THEN [st EXCEPT !.row = Append(@, Choice(pixel_chars, st.rng)),
                    !.rng = Advance(@),
                    !.draws = @ + 1]
    ELSE IF s = Checker
    THEN [st EXCEPT !.row = Append(@, IF (x + y + Head(st.rng)) % 2 = 0
                                       THEN PixelChar(0) ELSE PixelChar(1))]
    ELSE IF s = Border
    THEN IF x = 0 \/ x = w - 1 \/ y = 0 \/ y = h - 1
         THEN [st EXCEPT !.row = Append(@, PixelChar(0))]
         ELSE [st EXCEPT !.row = Append(@, PixelChar(3))]
    ELSE st

\* mutant: the random style draws once per row and repeats the glyph
CellStepRowDraw(x, y, w, h, s, st) ==
    IF s = Random
    THEN IF x = 0
         THEN [st EXCEPT !.row = Append(@, Choice(pixel_chars, st.rng)),
                         !.rng = Advance(@),
                         !.draws = @ + 1]
         ELSE [st EXCEPT !.row = Append(@, st.row[1])]
    ELSE IF s = Checker
    THEN [st EXCEPT !.row = Append(@, IF (x + y) % 2 = 0
                                       THEN PixelChar(0) ELSE PixelChar(1))]
    ELSE IF s = Border
    THEN IF x = 0 \/ x = w - 1 \/ y = 0 \/ y = h - 1
         THEN [st EXCEPT !.row = Append(@, PixelChar(0))]
         ELSE [st EXCEPT !.row = Append(@, PixelChar(3))]
    ELSE st

\* The body of the inner loop: the style switch for cell (x, y).
\* st is the state of the inner loop, [x, row, rng, draws]: the loop variable,
\* the row so far, the random source, the draws made so far.
CellStep(x, y, w, h, s, st) ==
    IF s = Random
    THEN [st EXCEPT !.row = Append(@, Choice(pixel_chars, st.rng)),
                    !.rng = Advance(@),
                    !.draws = @ + 1]
    ELSE IF s = Checker
    THEN [st EXCEPT !.row = Append(@, IF (x + y) % 2 = 0
                                       THEN PixelChar(0) ELSE PixelChar(1))]
    ELSE IF s = Border
    THEN IF x = 0 \/ x = w - 1 \/ y = 0 \/ y = h - 1
         THEN [st EXCEPT !.row = Append(@, PixelChar(0))]
         ELSE [st EXCEPT !.row = Append(@, PixelChar(3))]
    ELSE st

\* for x in range(width): the state the loop ends in, from state st
RECURSIVE RowLoop(_, _, _, _, _)
RowLoop(y, w, h, s, st) ==
    IF st.x >= w THEN st
    ELSE RowLoop(y, w, h, s, [CellStep(st.x, y, w, h, s, st) EXCEPT !.x = st.x + 1])

\* The body of the outer loop: row st.y.
\* st is the state of the outer loop, [y, art, rng, draws].
RowStep(w, h, s, st) ==
    LET done == RowLoop(st.y, w, h, s,
                        [x |-> 0, row |-> <<>>, rng |-> st.rng, draws |-> st.draws])
    IN  [st EXCEPT !.art = Append(@, done.row),
                   !.rng = done.rng,
                   !.draws = done.draws]

\* for y in range(height): the state the loop ends in, from state st
RECURSIVE ArtLoop(_, _, _, _)
ArtLoop(w, h, s, st) ==
    IF st.y >= h THEN st
    ELSE ArtLoop(w, h, s, [RowStep(w, h, s, st) EXCEPT !.y = st.y + 1])

\* mutant: the row loop starts at the second row
generate_pixel_art_short(w, h, s, r) ==
    ArtLoop(w, h, s, [y |-> 1, art |-> <<>>, rng |-> r, draws |-> 0])

\* generate_pixel_art(width, height, style) with the random source at r:
\* [art: the rows returned, rng: the random source afterwards, draws]
generate_pixel_art(w, h, s, r) ==
    ArtLoop(w, h, s, [y |-> 0, art |-> <<>>, rng |-> r, draws |-> 0])

\* A call of generate_pixel_art and its return.
Invoke(w, h, s) ==
    LET res == generate_pixel_art(w, h, s, rng)
    IN  /\ args' = [width |-> w, height |-> h, style |-> s]
        /\ art' = res.art
        /\ rng' = res.rng
        /\ draws' = res.draws
        /\ called' = TRUE

NoArgs == [width |-> 0, height |-> 0, style |-> <<>>]

InitRenderer ==
    /\ args = NoArgs
    /\ art = <<>>
    /\ rng \in Seeds
    /\ draws = 0
    /\ called = FALSE

InitHarness ==
    /\ first = [valid |-> FALSE, args |-> NoArgs, art |-> <<>>]
    /\ advanced = FALSE

InitShell ==
    /\ pc = "start"
    /\ width = 0
    /\ height = 0
    /\ style = <<>>
    /\ stdin = <<>>
    /\ stdout = <<>>

Init == InitRenderer /\ InitHarness /\ InitShell

\* The sources SpecTwice and ShellSpec start from: the streams over the first
\* SeedIndices palette indices.
FewSeeds == [1..TapeLen -> 0..(SeedIndices - 1)]

InitFewSeeds == Init /\ rng \in FewSeeds

\* styles a direct caller may pass: the renderer validates nothing
Plaid == <<"p", "l", "a", "i", "d">>
UpperChecker == <<"C", "H", "E", "C", "K", "E", "R">>
Styles == Recognized \cup {Plaid, UpperChecker}

----------------------------------------------------------------------------
(* Spec: one direct call of generate_pixel_art, from any state of the random
   source *)

Call(w, h, s) ==
    /\ ~called
    /\ Invoke(w, h, s)
    /\ UNCHANGED harnessVars
    /\ UNCHANGED shellVars

Next == \E w \in 1..MaxDim, h \in 1..MaxDim, s \in Styles : Call(w, h, s)

Spec == Init /\ [][Next]_vars

----------------------------------------------------------------------------
(* SpecTwice: a caller that keeps the result of its first call and goes on
   calling *)

FirstCall(w, h, s) ==
    /\ ~first.valid
    /\ Invoke(w, h, s)
    /\ first' = [valid |-> TRUE, args |-> args', art |-> art']
    /\ UNCHANGED advanced
    /\ UNCHANGED shellVars

LaterCall(w, h, s) ==
    /\ first.valid
    /\ Invoke(w, h, s)
    /\ advanced' = (advanced \/ rng' # rng)
    /\ UNCHANGED first
    /\ UNCHANGED shellVars

StylesTwice == Recognized \cup {Plaid}

NextTwice ==
    \E w \in 1..MaxDimTwice, h \in 1..MaxDimTwice, s \in StylesTwice :
        \/ FirstCall(w, h, s)
        \/ LaterCall(w, h, s)

SpecTwice == InitFewSeeds /\ [][NextTwice]_vars

----------------------------------------------------------------------------
(* main *)

Digits == <<"0", "1", "2", "3", "4", "5", "6", "7", "8", "9">>
DigitSet == {Digits[i] : i \in 1..Len(Digits)}
DigitValue(c) == (CHOOSE i \in 1..Len(Digits) : Digits[i] = c) - 1

IsSpace(c) == c \in {" ", "\t"}

RECURSIVE LStrip(_)
LStrip(s) == IF s # <<>> /\ IsSpace(Head(s)) THEN LStrip(Tail(s)) ELSE s

RECURSIVE RStrip(_)
RStrip(s) ==
    IF s # <<>> /\ IsSpace(s[Len(s)]) THEN RStrip(SubSeq(s, 1, Len(s) - 1)) ELSE s

Strip(s) == RStrip(LStrip(s))

\* the literal without its sign
Unsigned(s) == IF s # <<>> /\ Head(s) \in {"+", "-"} THEN Tail(s) ELSE s

\* digits, with single underscores between digits
IsDigits(b) ==
    /\ b # <<>>
    /\ \A i \in 1..Len(b) : b[i] \in DigitSet \cup {"_"}
    /\ b[1] # "_"
    /\ b[Len(b)] # "_"
    /\ \A i \in 1..(Len(b) - 1) : ~(b[i] = "_" /\ b[i + 1] = "_")

RECURSIVE DigitsValue(_, _)
DigitsValue(b, acc) ==
    IF b = <<>> THEN acc
    ELSE IF Head(b) = "_" THEN DigitsValue(Tail(b), acc)
    ELSE DigitsValue(Tail(b), 10 * acc + DigitValue(Head(b)))

\* int(s) returns (does not raise ValueError)
int_ok(s) == IsDigits(Unsigned(Strip(s)))

\* int(s), for s with int_ok(s)
int_value(s) ==
    LET t == Strip(s)
        v == DigitsValue(Unsigned(t), 0)
    IN  IF Head(t) = "-" THEN 0 - v ELSE v

UpperLetters == <<"A", "B", "C", "D", "E", "F", "G", "H", "I", "J", "K", "L", "M",
                  "N", "O", "P", "Q", "R", "S", "T", "U", "V", "W", "X", "Y", "Z">>
LowerLetters == <<"a", "b", "c", "d", "e", "f", "g", "h", "i", "j", "k", "l", "m",
                  "n", "o", "p", "q", "r", "s", "t", "u", "v", "w", "x", "y", "z">>

LowerChar(c) ==
    IF \E i \in 1..Len(UpperLetters) : UpperLetters[i] = c
    THEN LowerLetters[CHOOSE i \in 1..Len(UpperLetters) : UpperLetters[i] = c]
    ELSE c

\* s.lower()
lower(s) == [i \in 1..Len(s) |-> LowerChar(s[i])]

\* mutant: only the dimension that is out of range is replaced
DimensionsEach(w, h) ==
    <<IF MinWidth <= w /\ w <= MaxWidth THEN w ELSE DefaultWidth,
      IF MinHeight <= h /\ h <= MaxHeight THEN h ELSE DefaultHeight>>

OutOfRange(w, h) ==
    ~(MinWidth <= w /\ w <= MaxWidth) \/ ~(MinHeight <= h /\ h <= MaxHeight)

\* width, height after the range check
Dimensions(w, h) ==
    IF OutOfRange(w, h) THEN <<DefaultWidth, DefaultHeight>> ELSE <<w, h>>

\* mutant: the style is not defaulted
StyleOrDefaultNone(s) == s

\* style after the membership check
StyleOrDefault(s) == IF s \notin Recognized THEN Random ELSE s

\* a line of output: a message, or a row of the art
Line(kind) == [kind |-> kind, row |-> <<>>]
RowLine(r) == [kind |-> "row", row |-> r]

\* print(welcome); input(<width prompt>) blocks
Welcome ==
    /\ pc = "start"
    /\ stdout' = <<Line("welcome"), Line("prompt_width")>>
    /\ pc' = "read_width"
    /\ UNCHANGED <<width, height, style, stdin>>
    /\ UNCHANGED rendererVars
    /\ UNCHANGED harnessVars

\* mutant: after the error message the width defaults and main goes on
EnterWidthGoOn(inp) ==
    /\ pc = "read_width"
    /\ stdin' = Append(stdin, inp)
    /\ IF int_ok(inp)
       THEN /\ width' = int_value(inp)
            /\ stdout' = Append(stdout, Line("prompt_height"))
       ELSE /\ width' = DefaultWidth
            /\ stdout' = stdout \o <<Line("invalid_input"), Line("prompt_height")>>
    /\ pc' = "read_height"
    /\ UNCHANGED <<height, style>>
    /\ UNCHANGED rendererVars
    /\ UNCHANGED harnessVars

\* the width line arrives: width = int(...), then input(<height prompt>) blocks;
\* on ValueError the except clause prints and main returns
EnterWidth(inp) ==
    /\ pc = "read_width"
    /\ stdin' = Append(stdin, inp)
    /\ IF int_ok(inp)
       THEN /\ width' = int_value(inp)
            /\ stdout' = Append(stdout, Line("prompt_height"))
            /\ pc' = "read_height"
       ELSE /\ width' = width
            /\ stdout' = Append(stdout, Line("invalid_input"))
            /\ pc' = "done"
    /\ UNCHANGED <<height, style>>
    /\ UNCHANGED rendererVars
    /\ UNCHANGED harnessVars

\* the height line arrives
EnterHeight(inp) ==
    /\ pc = "read_height"
    /\ stdin' = Append(stdin, inp)
    /\ IF int_ok(inp)
       THEN /\ height' = int_value(inp)
            /\ stdout' = Append(stdout, Line("prompt_style"))
            /\ pc' = "read_style"
       ELSE /\ height' = height
            /\ stdout' = Append(stdout, Line("invalid_input"))
            /\ pc' = "done"
    /\ UNCHANGED <<width, style>>
    /\ UNCHANGED rendererVars
    /\ UNCHANGED harnessVars

\* the style line arrives: the rest of main
EnterStyle(inp) ==
    /\ pc = "read_style"
    /\ stdin' = Append(stdin, inp)
    /\ LET entered == lower(inp)
           dims == Dimensions(width, height)
           notes == (IF OutOfRange(width, height)
                     THEN <<Line("out_of_range")>> ELSE <<>>)
                    \o (IF entered \notin Recognized
                        THEN <<Line("invalid_style")>> ELSE <<>>)
       IN  /\ width' = dims[1]
           /\ height' = dims[2]
           /\ style' = StyleOrDefault(entered)
           /\ Invoke(width', height', style')
           /\ stdout' = stdout \o notes \o <<Line("header")>>
                          \o [i \in 1..Len(art') |-> RowLine(art'[i])]
    /\ pc' = "done"
    /\ UNCHANGED harnessVars

\* input() meets the end of the input: EOFError, which main does not catch
EndOfInput ==
    /\ pc \in {"read_width", "read_height", "read_style"}
    /\ pc' = "crashed"
    /\ UNCHANGED <<width, height, style, stdin, stdout>>
    /\ UNCHANGED rendererVars
    /\ UNCHANGED harnessVars

WidthInputs ==
    { <<"4">>, <<"5">>, <<"5", "0">>, <<"5", "1">>, <<" ", "7">>, <<"1", "_", "2">>,
      <<"x">>, <<>>, <<"5", ".", "5">> }

HeightInputs ==
    { <<"4">>, <<"5">>, <<"3", "0">>, <<"3", "1">>, <<"+", "6">>, <<"-", "7">>,
      <<"1", "e", "1">>, <<>>, <<"t", "e", "n">> }

StyleInputs ==
    { Random, Checker, Border, UpperChecker, <<"B", "o", "r", "d", "e", "r">>,
      Plaid, <<>>, <<"c", "h", "e", "c", "k", "e", "r", " ">> }

NextShell ==
    \/ Welcome
    \/ \E inp \in WidthInputs : EnterWidth(inp)
    \/ \E inp \in HeightInputs : EnterHeight(inp)
    \/ \E inp \in StyleInputs : EnterStyle(inp)
    \/ EndOfInput

ShellSpec == InitFewSeeds /\ [][NextShell]_vars

----------------------------------------------------------------------------
(* Properties *)

\* the glyph at column x of row y of the returned art, both 0-indexed
Glyph(x, y) == art[y + 1][x + 1]

\* the art has args.height rows of args.width glyphs
Shaped ==
    /\ Len(art) = args.height
    /\ \A y \in 1..Len(art) : Len(art[y]) = args.width

\* the cells (x, y) of the grid asked for
Cells == (0..(args.width - 1)) \X (0..(args.height - 1))

\* C1: for positive width and height and a style among random, checker and
\* border, generate_pixel_art returns exactly `height` rows and every row has
\* exactly `width` glyphs.
C1_RowsAndColumns ==
    (called /\ args.width >= 1 /\ args.height >= 1 /\ args.style \in Recognized)
        => Shaped

C1_Witness ==
    /\ called
    /\ args = [width |-> 3, height |-> 5, style |-> Random]
    /\ Len(art) = 5
    /\ Len(art[5]) = 3

\* C2: for style checker the glyph at every cell (x, y) is the solid glyph when
\* x + y is even and the dark-shade glyph when x + y is odd; a 4 by 3 checker
\* is solid,dark,solid,dark / dark,solid,dark,solid / solid,dark,solid,dark.
C2_Checker ==
    (called /\ args.style = Checker) =>
        /\ Shaped
        /\ \A c \in Cells :
              Glyph(c[1], c[2]) = IF (c[1] + c[2]) % 2 = 0 THEN "solid" ELSE "dark"
        /\ (args.width = 4 /\ args.height = 3) =>
              art = << <<"solid", "dark", "solid", "dark">>,
                       <<"dark", "solid", "dark", "solid">>,
                       <<"solid", "dark", "solid", "dark">> >>

C2_Witness ==
    /\ called
    /\ args = [width |-> 4, height |-> 3, style |-> Checker]
    /\ art[2] = <<"dark", "solid", "dark", "solid">>

\* C3: for style border the glyph at cell (x, y) is the solid glyph exactly
\* when x = 0 or x = width-1 or y = 0 or y = height-1, and the light-shade
\* glyph otherwise; so for width, height >= 3 the four corners are solid and
\* cell (width \div 2, height \div 2) is light-shade, a 5 by 5 border is a
\* solid ring around a 3 by 3 light-shade interior, and with width or height 1
\* every cell is solid.
C3_Border ==
    (called /\ args.style = Border) =>
        LET w == args.width
            h == args.height
        IN  /\ Shaped
            /\ \A c \in Cells :
                  /\ Glyph(c[1], c[2]) \in {"solid", "light"}
                  /\ Glyph(c[1], c[2]) = "solid"
                        <=> (c[1] = 0 \/ c[1] = w - 1 \/ c[2] = 0 \/ c[2] = h - 1)
            /\ (w >= 3 /\ h >= 3) =>
                  /\ Glyph(0, 0) = "solid"
                  /\ Glyph(w - 1, 0) = "solid"
                  /\ Glyph(0, h - 1) = "solid"
                  /\ Glyph(w - 1, h - 1) = "solid"
                  /\ Glyph(w \div 2, h \div 2) = "light"
            /\ (w = 5 /\ h = 5) =>
                  art = << <<"solid", "solid", "solid", "solid", "solid">>,
                           <<"solid", "light", "light", "light", "solid">>,
                           <<"solid", "light", "light", "light", "solid">>,
                           <<"solid", "light", "light", "light", "solid">>,
                           <<"solid", "solid", "solid", "solid", "solid">> >>
            /\ (w = 1 \/ h = 1) => \A c \in Cells : Glyph(c[1], c[2]) = "solid"
            /\ (w = 1 /\ h = 1) => art = << <<"solid">> >>

C3_Witness ==
    /\ called
    /\ args = [width |-> 5, height |-> 5, style |-> Border]
    /\ Glyph(4, 4) = "solid"
    /\ Glyph(3, 3) = "light"

\* C4: for style checker, two horizontally adjacent cells and two vertically
\* adjacent cells of the grid hold different glyphs.
C4_NeighboursDiffer ==
    (called /\ args.style = Checker) =>
        /\ Shaped
        /\ \A c \in Cells :
              /\ c[1] + 1 < args.width => Glyph(c[1], c[2]) # Glyph(c[1] + 1, c[2])
              /\ c[2] + 1 < args.height => Glyph(c[1], c[2]) # Glyph(c[1], c[2] + 1)

C4_Witness ==
    /\ called
    /\ args = [width |-> 2, height |-> 2, style |-> Checker]
    /\ Glyph(0, 0) # Glyph(0, 1)
    /\ Glyph(0, 0) # Glyph(1, 0)

\* C5: a call with style checker or border returns what the first call with
\* the same width, height and style returned, whatever calls were made in
\* between, those of style random that advance the random source included.
C5_Deterministic ==
    (first.valid /\ args = first.args /\ args.style \in {Checker, Border})
        => art = first.art

C5_Witness ==
    /\ first.valid
    /\ advanced
    /\ args = first.args
    /\ args = [width |-> 2, height |-> 2, style |-> Checker]
    /\ art = first.art

\* C6: for style random every glyph of every row is one of the six palette
\* symbols, and every cell takes its own draw from the random source, in
\* row-major order: width * height draws per call.
C6_RandomFromPalette ==
    (called /\ args.style = Random) =>
        /\ Shaped
        /\ \A c \in Cells :
              /\ Glyph(c[1], c[2]) \in
                    {"solid", "dark", "medium", "light", "filled", "empty"}
              \* rng is the source after `draws` draws: the k-th value drawn is
              \* at position ((k - draws) % TapeLen) + 1 of it
              /\ Glyph(c[1], c[2]) =
                    pixel_chars[rng[((c[2] * args.width + c[1] - draws) % TapeLen) + 1] + 1]
        /\ draws = args.width * args.height

C6_Witness ==
    /\ called
    /\ args = [width |-> 2, height |-> 2, style |-> Random]
    /\ draws = 4
    /\ Glyph(0, 0) = "empty"
    /\ Glyph(1, 0) = "medium"

\* C10: generate_pixel_art called with a style other than random, checker and
\* border returns `height` rows, each of them empty.
C10_UnrecognizedStyle ==
    (called /\ args.style \notin Recognized) =>
        /\ Len(art) = args.height
        /\ \A y \in 1..Len(art) : art[y] = <<>>
        /\ draws = 0

C10_Witness ==
    /\ called
    /\ args = [width |-> 3, height |-> 2, style |-> UpperChecker]
    /\ art = << <<>>, <<>> >>

\* the rows main has printed
PrintedRows == SelectSeq(stdout, LAMBDA l : l.kind = "row")
Printed(kind) == \E i \in 1..Len(stdout) : stdout[i].kind = kind

\* C7: when the entered width and height are integers and width is outside
\* [5,50] or height outside [5,30], main calls the renderer with width 10 and
\* height 10; otherwise with the entered values.  Every renderer call of main
\* has width in [5,50] and height in [5,30].
C7_Dimensions ==
    /\ (pc = "done" /\ Len(stdin) = 3) =>
          LET w == int_value(stdin[1])
              h == int_value(stdin[2])
          IN  /\ called
              /\ IF w < 5 \/ w > 50 \/ h < 5 \/ h > 30
                 THEN args.width = 10 /\ args.height = 10
                 ELSE args.width = w /\ args.height = h
    /\ called => (args.width \in 5..50 /\ args.height \in 5..30)

C7_Witness ==
    /\ pc = "done"
    /\ Len(stdin) = 3
    /\ stdin[1] = <<"5", "1">>
    /\ stdin[2] = <<"+", "6">>
    /\ args.width = 10
    /\ args.height = 10

\* an input without any digit
NotNumeric(s) == \A i \in 1..Len(s) : s[i] \notin DigitSet

\* C8: if the width input or the height input is not numeric, main prints the
\* error message and ends without calling the renderer and without printing
\* a row; after a non-numeric width neither height nor style is prompted for.
C8_NotNumeric ==
    /\ (pc # "read_width" /\ Len(stdin) >= 1 /\ NotNumeric(stdin[1])) =>
          /\ pc = "done"
          /\ Len(stdin) = 1
          /\ stdout[Len(stdout)] = Line("invalid_input")
          /\ ~Printed("prompt_height")
          /\ ~Printed("prompt_style")
          /\ ~called
          /\ PrintedRows = <<>>
    /\ (pc # "read_height" /\ Len(stdin) >= 2 /\ NotNumeric(stdin[2])) =>
          /\ pc = "done"
          /\ Len(stdin) = 2
          /\ stdout[Len(stdout)] = Line("invalid_input")
          /\ ~Printed("prompt_style")
          /\ ~called
          /\ PrintedRows = <<>>

C8_Witness ==
    /\ pc = "done"
    /\ stdin = << <<"x">> >>
    /\ stdout = <<Line("welcome"), Line("prompt_width"), Line("invalid_input")>>

\* C9: main lower-cases the entered style and replaces it by random when it
\* is then not one of random, checker, border; every renderer call of main has
\* a style among those three, and main prints `height` rows of `width` glyphs.
C9_Style ==
    /\ (pc = "done" /\ Len(stdin) = 3) =>
          /\ called
          /\ args.style = IF lower(stdin[3]) \in Recognized
                          THEN lower(stdin[3]) ELSE Random
          /\ stdin[3] = UpperChecker => args.style = Checker
          /\ stdin[3] = Plaid => args.style = Random
          /\ Len(PrintedRows) = args.height
          /\ \A i \in 1..Len(PrintedRows) : Len(PrintedRows[i].row) = args.width
          /\ PrintedRows = [i \in 1..Len(art) |-> RowLine(art[i])]
    /\ called => args.style \in Recognized

C9_Witness ==
    /\ pc = "done"
    /\ Len(stdin) = 3
    /\ stdin[3] = Plaid
    /\ args.style = Random
    /\ Len(PrintedRows) = 10

====
